---------------------------- MODULE Spec2Model ----------------------------
(***************************************************************************)
(* Discovery/registry reconciliation (orchestrator/discovery.py,           *)
(* orchestrator/models.py) and request routing (orchestrator/agent.py) of  *)
(* the multi-protocol agent orchestrator, as an asyncio state machine:     *)
(* every action is the code that runs between two suspension points of one *)
(* coroutine.                                                              *)
(***************************************************************************)
EXTENDS Integers, Sequences, FiniteSets, TLC

(***************************************************************************)
(* Bounds of the model.                                                    *)
(***************************************************************************)
\* wall-clock readings (datetime.utcnow()) are 0..MaxTime, in hours
MaxTime == 2
\* reconciliation cycles that may be suspended at the same time
MaxInFlight == 2
\* routing requests accepted over a run
MaxRequests == 2

(***************************************************************************)
(* Program constants.                                                      *)
(***************************************************************************)
\* AgentRegistryEntry.should_remove(max_failures=5)
MAX_FAILURES == 5
\* _cleanup_registry: cutoff_time = utcnow() - timedelta(hours=1)
STALE_WINDOW == 1
\* Python's None where an entry reference is expected
NoRef == 0
\* Python's None where a timestamp is expected (last_request)
NoTime == -1

(***************************************************************************)
(* Strings are sequences of one-character strings, so that str.lower() and *)
(* str.strip() are computed and not assumed.                               *)
(***************************************************************************)
UpperAlpha == << "A","B","C","D","E","F","G","H","I","J","K","L","M",
                 "N","O","P","Q","R","S","T","U","V","W","X","Y","Z" >>
LowerAlpha == << "a","b","c","d","e","f","g","h","i","j","k","l","m",
                 "n","o","p","q","r","s","t","u","v","w","x","y","z" >>

LowerChar(c) ==
    IF \E i \in DOMAIN UpperAlpha : UpperAlpha[i] = c
    THEN LowerAlpha[CHOOSE i \in DOMAIN UpperAlpha : UpperAlpha[i] = c]
    ELSE c

\* str.lower()
Lower(s) == [i \in DOMAIN s |-> LowerChar(s[i])]

RECURSIVE LStrip(_)
LStrip(s) == IF s # << >> /\ Head(s) = " " THEN LStrip(Tail(s)) ELSE s

RECURSIVE RStrip(_)
RStrip(s) ==
    IF s # << >> /\ s[Len(s)] = " " THEN RStrip(SubSeq(s, 1, Len(s) - 1)) ELSE s

\* str.strip()
Strip(s) == RStrip(LStrip(s))

\* AgentCapability.validate_name: the stored name is v.strip().lower()
validate_name(v) == Lower(Strip(v))

\* AgentCapability(name=..., tags=...): the name is normalised, the tags are kept
AgentCapability(name, tags) == [name |-> validate_name(name), tags |-> tags]

(***************************************************************************)
(* The fleet: _discover_agents_http probes four fixed endpoints, two per   *)
(* agent; agent_id is "<protocol>-<name>".                                 *)
(***************************************************************************)
known_endpoints ==
    << [protocol |-> "acp", name |-> "hello-world", host |-> "service"],
       [protocol |-> "acp", name |-> "hello-world", host |-> "localhost"],
       [protocol |-> "a2a", name |-> "math",        host |-> "service"],
       [protocol |-> "a2a", name |-> "math",        host |-> "localhost"] >>

AgentKey(endpoint) ==
    IF endpoint.protocol = "acp" THEN "acp-hello-world" ELSE "a2a-math"

AgentIds == { AgentKey(known_endpoints[i]) : i \in DOMAIN known_endpoints }

ProtocolOf(id) == IF id = "acp-hello-world" THEN "acp" ELSE "a2a"

\* AgentStatus
HEALTHY   == "healthy"
DEGRADED  == "degraded"
UNHEALTHY == "unhealthy"
UNKNOWN   == "unknown"
AgentStatus == { HEALTHY, DEGRADED, UNHEALTHY, UNKNOWN }

\* what the capability fetch of _create_agent_from_endpoint produced:
\* "card" when /capabilities or the agent card was read, "default" when the
\* fetch failed and the static default capability was used
CapsKinds == { "card", "default" }

\* the capability documents the two agents serve
CardCapabilities(id) ==
    IF ProtocolOf(id) = "acp"
    THEN << AgentCapability(<< "G","r","e","e","t"," " >>, << >>) >>
    ELSE << AgentCapability(<< "C","a","l","c" >>,
                            << << "M","a","t","h" >>, << "s","u","m" >> >>) >>

default_capability(id) ==
    IF ProtocolOf(id) = "acp"
    THEN AgentCapability(<< "g","r","e","e","t","i","n","g" >>, << >>)
    ELSE AgentCapability(<< "a","r","i","t","h","m","e","t","i","c" >>, << >>)

\* an agent_data without the default: "capabilities": capabilities
CapabilitiesOf_no_default(id, kind) ==
    IF kind = "card" THEN CardCapabilities(id) ELSE << >>

\* "capabilities": capabilities or [default_capability]
CapabilitiesOf(id, kind) ==
    IF kind = "card" THEN CardCapabilities(id) ELSE << default_capability(id) >>

\* what GET /capabilities or GET /.well-known/agent-card.json can do: 200
\* with the document above, 200 with a document listing nothing, 200 with a
\* body response.json() fails on, another status, an exception
FetchOutcomes ==
    { "200", "200-no-capabilities", "200-unparseable", "non-200", "exception" }

\* the local `capabilities` after the inner try (lines 176-232), whose
\* handler swallows every exception
fetched_capabilities(id, outcome) ==
    IF outcome = "200" THEN CardCapabilities(id) ELSE << >>

\* which of the two `capabilities or [default_capability]` takes
CapsKindAfter(id, outcome) ==
    IF fetched_capabilities(id, outcome) # << >> THEN "card" ELSE "default"


(***************************************************************************)
(* Tasks.  "main" is the caller of start()/stop() (api.py lifespan),       *)
(* "manual" the background task of POST /agents/refresh, and the loop      *)
(* tasks are the _discovery_loop tasks that start() creates, one per call. *)
(***************************************************************************)
LoopTasks == { "loop1", "loop2" }
Runners   == { "main", "manual" } \cup LoopTasks
Slots     == 1 .. MaxInFlight

\* the callers of POST /route and POST /process
Clients == { "c1" }

\* Python's None where an agent, an error string or a result is expected
NoAgent == "None"
NoError == "None"
\* an agent id that no endpoint yields
GHOST == "custom-ghost"
\* RoutingDecision.confidence, in tenths (0.0 .. 1.0)
Confidences == { 0, 10 }

NoRequest  == [ entry |-> "-", preferred_agent |-> NoAgent ]
NoDecision == [ selected_agent |-> NoAgent, confidence |-> 0,
                reasoning |-> << >>, error |-> NoError ]
NoResponse == [ agent_id |-> "-", success |-> FALSE, reason |-> "-" ]

\* OrchestrationMetrics(): all counters 0
OrchestrationMetrics ==
    [ total_requests |-> 0, successful_requests |-> 0, failed_requests |-> 0 ]

VARIABLES
    now,              \* datetime.utcnow()
    agent_registry,   \* self.agent_registry: agent_id -> reference to an entry
    heap,             \* the AgentRegistryEntry objects, by reference <<id, slot>>
    running,          \* self._running
    discovery_task,   \* self._discovery_task: a loop task, or "None"
    pc,               \* where each task is suspended
    found,            \* per task: discovered_agents still to be merged
    entry,            \* per task: slot of the local `entry` under health check
    new_registry,     \* per task: the local new_registry of _update_registry
    last_log,         \* the last record written to the logger
    req_pc,           \* per client: where its routing request is suspended
    request,          \* per client: the RoutingRequest it sent last
    decision,         \* per client: the RoutingDecision route_request returned
    response,         \* per client: the AgentResponse process_request returned
    metrics,          \* OrchestratorAgent.metrics
    served,           \* routing requests accepted so far
    container_info,   \* the candidate handed to a strategy's discover()
    discovered        \* the strategy called last, and what discover() returned

vars == << now, agent_registry, heap, running, discovery_task, pc, found,
           entry, new_registry, last_log, req_pc, request, decision, response,
           metrics, served, container_info, discovered >>

\* the state of the routing engine (agent.py)
routeVars == << req_pc, request, decision, response, metrics, served >>

\* the state of a discover() call on a strategy (protocols/)
strategyVars == << container_info, discovered >>

(***************************************************************************)
(* models.py: AgentRegistryEntry                                           *)
(***************************************************************************)
\* AgentRegistryEntry(agent=agent): last_seen defaults to utcnow()
NewEntry(agent, t) ==
    [ agent |-> agent, last_seen |-> t, consecutive_failures |-> 0,
      request_count |-> 0, last_request |-> NoTime ]

\* a mark_request that also resets the failure counter
mark_request_resets(e, t) ==
    [e EXCEPT !.request_count = @ + 1, !.last_request = t,
              !.consecutive_failures = 0]

mark_request(e, t) == [e EXCEPT !.request_count = @ + 1, !.last_request = t]

\* a mark_failure that counts one miss twice
mark_failure_twice(e) == [e EXCEPT !.consecutive_failures = @ + 2]

mark_failure(e) == [e EXCEPT !.consecutive_failures = @ + 1]

mark_success(e, t) == [e EXCEPT !.consecutive_failures = 0, !.last_seen = t]

\* a should_remove that lets an entry reach the threshold
should_remove_above(e) == e.consecutive_failures > MAX_FAILURES

should_remove(e) == e.consecutive_failures >= MAX_FAILURES

(***************************************************************************)
(* discovery.py: _discover_agents_http / _create_agent_from_endpoint       *)
(***************************************************************************)
\* The DiscoveredAgent built for an endpoint: status is HEALTHY at
\* construction.  `by` is the identity of the object (the task that built
\* it): `agent.status = ...` in _update_registry writes to this object,
\* which an entry shows only while entry.agent is still this object.
create_agent_from_endpoint(p, endpoint, kind) ==
    [ agent_id |-> AgentKey(endpoint), by |-> p, endpoint |-> endpoint.host,
      caps |-> kind, status |-> HEALTHY ]

\* a probe loop that does not skip the endpoints of an agent already found
RECURSIVE ProbeFrom_no_skip(_, _, _, _, _, _)
ProbeFrom_no_skip(i, p, probe, kinds, agents_tried, discovered_agents) ==
    IF i > Len(known_endpoints) THEN discovered_agents
    ELSE LET endpoint == known_endpoints[i]
         IN  IF probe[i] = "ok"
             THEN ProbeFrom_no_skip(i + 1, p, probe, kinds, agents_tried,
                     Append(discovered_agents,
                            create_agent_from_endpoint(p, endpoint,
                                                       kinds[AgentKey(endpoint)])))
             ELSE ProbeFrom_no_skip(i + 1, p, probe, kinds, agents_tried,
                                    discovered_agents)

\* a probe loop that a failing endpoint ends
RECURSIVE ProbeFrom_aborts(_, _, _, _, _, _)
ProbeFrom_aborts(i, p, probe, kinds, agents_tried, discovered_agents) ==
    IF i > Len(known_endpoints) THEN discovered_agents
    ELSE LET endpoint  == known_endpoints[i]
             agent_key == AgentKey(endpoint)
         IN  IF agent_key \in agents_tried
             THEN ProbeFrom_aborts(i + 1, p, probe, kinds, agents_tried,
                                   discovered_agents)
             ELSE IF probe[i] = "ok"
             THEN ProbeFrom_aborts(i + 1, p, probe, kinds,
                     agents_tried \cup {agent_key},
                     Append(discovered_agents,
                            create_agent_from_endpoint(p, endpoint, kinds[agent_key])))
             ELSE discovered_agents

RECURSIVE ProbeFrom(_, _, _, _, _, _)
ProbeFrom(i, p, probe, kinds, agents_tried, discovered_agents) ==
    IF i > Len(known_endpoints) THEN discovered_agents
    ELSE LET endpoint  == known_endpoints[i]
             agent_key == AgentKey(endpoint)
         IN  IF agent_key \in agents_tried
             THEN ProbeFrom(i + 1, p, probe, kinds, agents_tried, discovered_agents)
             ELSE IF probe[i] = "ok"
             THEN ProbeFrom(i + 1, p, probe, kinds, agents_tried \cup {agent_key},
                     Append(discovered_agents,
                            create_agent_from_endpoint(p, endpoint, kinds[agent_key])))
             ELSE ProbeFrom(i + 1, p, probe, kinds, agents_tried, discovered_agents)

\* probe[i] is "ok" when endpoint i answered 200 and an agent was built from
\* it, "fail" otherwise (non-200, exception, or no agent)
discover_agents_http(p, probe, kinds) == ProbeFrom(1, p, probe, kinds, {}, << >>)

ProbeOutcomes == [DOMAIN known_endpoints -> { "ok", "fail" }]

\* what the GET of an endpoint's health URL can do (lines 120-161): answer
\* 200 and an agent is built, answer 200 and _create_agent_from_endpoint
\* returns None, answer another status, raise inside the try
EndpointAnswers == { "200", "200-no-agent", "non-200", "exception" }

\* "ok" exactly when line 143 appends an agent
ProbeOf(answers) ==
    [ i \in DOMAIN answers |-> IF answers[i] = "200" THEN "ok" ELSE "fail" ]


(***************************************************************************)
(* The heap of entry objects.  An entry is reachable from the registry,    *)
(* from the new_registry of a suspended cycle, or as the `entry` local of  *)
(* one; unreachable entries are dropped (garbage collection).              *)
(***************************************************************************)
EmptyMap == [x \in {} |-> x]

Range(f) == { f[x] : x \in DOMAIN f }

InCycle(p) == pc[p] \in { "discover", "health" }

InFlight == { p \in Runners : InCycle(p) }

\* the first free slot for a new entry object of agent `id`
FreeSlot(h, id) ==
    CHOOSE k \in Slots :
        /\ << id, k >> \notin DOMAIN h
        /\ \A j \in Slots : << id, j >> \notin DOMAIN h => k <= j

\* once task p has left _update_registry nothing refers to its agent objects
\* by identity any more
Release(h, p) ==
    [ r \in DOMAIN h |->
        IF h[r].agent.by = p THEN [h[r] EXCEPT !.agent.by = "-"] ELSE h[r] ]

Collect(h, reg, newregs, fnd, ent) ==
    LET live == Range(reg)
                \cup UNION { Range(newregs[p]) : p \in Runners }
                \cup { << Head(fnd[p]).agent_id, ent[p] >> :
                         p \in { q \in Runners : ent[q] # NoRef } }
    IN  [ r \in DOMAIN h \cap live |-> h[r] ]

(***************************************************************************)
(* discovery.py: _update_registry (lines 278-335)                          *)
(***************************************************************************)
\* Lines 283-295: the loop body up to the await of health_check.  An entry
\* found in the live registry is updated in place.
MergeDiscovered(h, agent) ==
    LET id == agent.agent_id
    IN  IF id \in DOMAIN agent_registry
        THEN LET ref == agent_registry[id]
             IN  [ heap |-> [h EXCEPT ![ref] =
                                 mark_success([@ EXCEPT !.agent = agent], now)],
                   slot |-> ref[2] ]
        ELSE LET k == FreeSlot(h, id)
             IN  [ heap |-> h @@ (<< id, k >> :> NewEntry(agent, now)),
                   slot |-> k ]

HealthOutcomes == AgentStatus \cup { "raise" }

\* Lines 299-315: what follows the await of health_check, for the entry `ref`
\* of task p; outcome is the status returned, or "raise".
ApplyHealth(h, p, ref, outcome) ==
    LET health_status == IF outcome = "raise" THEN UNKNOWN ELSE outcome
        e0 == h[ref]
        e1 == IF e0.agent.by = p
              THEN [e0 EXCEPT !.agent.status = health_status]
              ELSE e0
    IN  [h EXCEPT ![ref] = IF outcome = HEALTHY
                           THEN mark_success(e1, now)
                           ELSE mark_failure(e1)]

\* Lines 319-335: entries of the live registry that this cycle did not put in
\* new_registry are marked failed and kept unless should_remove(); the
\* result is the map assigned to self.agent_registry.
PreserveUndiscovered(h, newreg) ==
    LET absent == DOMAIN agent_registry \ DOMAIN newreg
        h2 == [ r \in DOMAIN h |->
                  IF \E id \in absent : agent_registry[id] = r
                  THEN mark_failure(h[r]) ELSE h[r] ]
        kept == { id \in absent : ~ should_remove(h2[agent_registry[id]]) }
    IN  [ heap |-> h2,
          registry |-> [ id \in DOMAIN newreg \cup kept |->
                           IF id \in DOMAIN newreg THEN newreg[id]
                           ELSE agent_registry[id] ] ]

\* a cleanup that looks at the failure counter only
cleanup_registry_no_age(h, reg, t) ==
    [ id \in { i \in DOMAIN reg : ~ should_remove(h[reg[i]]) } |-> reg[id] ]

\* _cleanup_registry (lines 337-352)
cleanup_registry(h, reg, t) ==
    LET cutoff_time == t - STALE_WINDOW
        to_remove == { id \in DOMAIN reg :
                         \/ h[reg[id]].last_seen < cutoff_time
                         \/ should_remove(h[reg[id]]) }
    IN  [ id \in DOMAIN reg \ to_remove |-> reg[id] ]

\* "Removing failed agent from registry" (line 329) and "Removing stale agent
\* from registry" (line 351): the ids dropped between two maps, each with the
\* consecutive_failures of its entry at that moment
Removed(h, before, after) ==
    { << id, h[before[id]].consecutive_failures >> :
        id \in DOMAIN before \ DOMAIN after }

\* where a task continues once refresh() has returned: _discovery_loop goes
\* back to `while self._running`, start() and the background task return
AfterRefresh(p) ==
    IF p \in LoopTasks THEN (IF running THEN "sleep" ELSE "done") ELSE "idle"

LogAfterRefresh(p) ==
    IF p = "main" THEN << [msg |-> "Discovery service started successfully"] >>
    ELSE << >>

\* The tail of refresh(): second loop and swap of _update_registry, then
\* _cleanup_registry, "Discovery refresh complete" (lines 319-352, 86-93)
Complete(p, h, newreg) ==
    LET m   == PreserveUndiscovered(h, newreg)
        reg == cleanup_registry(m.heap, m.registry, now)
        nr  == [new_registry EXCEPT ![p] = EmptyMap]
        fd  == [found EXCEPT ![p] = << >>]
        en  == [entry EXCEPT ![p] = NoRef]
    IN  /\ agent_registry' = reg
        /\ new_registry' = nr
        /\ found' = fd
        /\ entry' = en
        /\ heap' = Collect(Release(m.heap, p), reg, nr, fd, en)
        /\ pc' = [pc EXCEPT ![p] = AfterRefresh(p)]
        /\ last_log' =
             << [ msg |-> "Discovery refresh complete", task |-> p,
                  failed |-> Removed(m.heap, agent_registry, m.registry),
                  stale  |-> Removed(m.heap, m.registry, reg) ] >>
             \o LogAfterRefresh(p)

\* Enter the loop body for the agents in `agents` (not empty), or finish.
Continue(p, h, newreg, agents) ==
    IF agents = << >>
    THEN Complete(p, h, newreg)
    ELSE LET m  == MergeDiscovered(h, Head(agents))
             nr == [new_registry EXCEPT ![p] = newreg]
             fd == [found EXCEPT ![p] = agents]
             en == [entry EXCEPT ![p] = m.slot]
         IN  /\ new_registry' = nr
             /\ found' = fd
             /\ entry' = en
             /\ heap' = Collect(m.heap, agent_registry, nr, fd, en)
             /\ pc' = [pc EXCEPT ![p] = "health"]
             /\ last_log' = << >>
             /\ UNCHANGED agent_registry

(***************************************************************************)
(* discovery.py: refresh (lines 73-96), one action per resumption          *)
(***************************************************************************)
\* _discover_agents_http returns: _update_registry runs up to its first
\* await, or to the end when nothing was discovered
DiscoverReturn(p, Probes, Kinds) ==
    /\ pc[p] = "discover"
    /\ \E probe \in Probes, kinds \in Kinds :
          Continue(p, heap, EmptyMap, discover_agents_http(p, probe, kinds))
    /\ UNCHANGED << now, running, discovery_task >>
    /\ UNCHANGED strategyVars
    /\ UNCHANGED routeVars

\* a refresh that swaps in the empty new_registry when discovery raises
DiscoverRaise_swaps(p) ==
    /\ pc[p] = "discover"
    /\ pc' = [pc EXCEPT ![p] = AfterRefresh(p)]
    /\ agent_registry' = EmptyMap
    /\ heap' = Collect(heap, EmptyMap, new_registry, found, entry)
    /\ last_log' = << [ msg |-> "Discovery refresh failed", task |-> p,
                         failed |-> {}, stale |-> {} ] >>
                   \o LogAfterRefresh(p)
    /\ UNCHANGED << now, running, discovery_task, found, entry, new_registry >>
    /\ UNCHANGED strategyVars
    /\ UNCHANGED routeVars

\* _discover_agents_http raises: caught by refresh (lines 95-96)
DiscoverRaise(p) ==
    /\ pc[p] = "discover"
    /\ pc' = [pc EXCEPT ![p] = AfterRefresh(p)]
    /\ last_log' = << [ msg |-> "Discovery refresh failed", task |-> p,
                         failed |-> {}, stale |-> {} ] >>
                   \o LogAfterRefresh(p)
    /\ UNCHANGED << now, agent_registry, heap, running, discovery_task, found,
                    entry, new_registry >>
    /\ UNCHANGED strategyVars
    /\ UNCHANGED routeVars

\* strategy.health_check returns or raises: the rest of the loop body, then
\* the next agent up to its health check, or the tail of refresh()
HealthReturn(p, Outcomes) ==
    /\ pc[p] = "health"
    /\ \E outcome \in Outcomes :
          LET id  == Head(found[p]).agent_id
              ref == << id, entry[p] >>
              h   == ApplyHealth(heap, p, ref, outcome)
          IN  Continue(p, h, (id :> ref) @@ new_registry[p], Tail(found[p]))
    /\ UNCHANGED << now, running, discovery_task >>
    /\ UNCHANGED strategyVars
    /\ UNCHANGED routeVars


\* Room for one more suspended cycle (model bound)
HasRoom == Cardinality(InFlight) < MaxInFlight

(***************************************************************************)
(* discovery.py: start / stop / _discovery_loop (lines 31-71)              *)
(***************************************************************************)
\* start(): _running = True, a new loop task replaces _discovery_task, then
\* the caller awaits refresh()
Start ==
    /\ pc["main"] = "idle"
    /\ HasRoom
    /\ \E l \in LoopTasks :
          /\ pc[l] = "none"
          /\ \A k \in LoopTasks : pc[k] = "none" => (l = "loop1" \/ k # "loop1")
          /\ discovery_task' = l
          /\ pc' = [pc EXCEPT ![l] = "created", !["main"] = "discover"]
    /\ running' = TRUE
    /\ last_log' = << [msg |-> "Starting unified discovery service"] >>
    /\ UNCHANGED << now, agent_registry, heap, found, entry, new_registry >>
    /\ UNCHANGED strategyVars
    /\ UNCHANGED routeVars

\* The task of a cancelled coroutine ends where it is suspended:
\* CancelledError is not an Exception, so neither refresh() nor
\* _update_registry catches it, and _discovery_loop breaks (lines 67-68).
\* What the cycle has written to shared entries stays; its locals are dropped.
Stop ==
    /\ pc["main"] = "idle"
    /\ running' = FALSE
    /\ LET t  == discovery_task
           cancelled == t # "None" /\ pc[t] # "done"
           nr == IF cancelled THEN [new_registry EXCEPT ![t] = EmptyMap]
                 ELSE new_registry
           fd == IF cancelled THEN [found EXCEPT ![t] = << >>] ELSE found
           en == IF cancelled THEN [entry EXCEPT ![t] = NoRef] ELSE entry
       IN  /\ pc' = IF cancelled THEN [pc EXCEPT ![t] = "done"] ELSE pc
           /\ new_registry' = nr
           /\ found' = fd
           /\ entry' = en
           /\ heap' = IF cancelled
                      THEN Collect(Release(heap, t), agent_registry, nr, fd, en)
                      ELSE heap
    /\ last_log' = << [msg |-> "Discovery service stopped"] >>
    /\ UNCHANGED << now, agent_registry, discovery_task >>
    /\ UNCHANGED strategyVars
    /\ UNCHANGED routeVars

\* first run of a loop task: `while self._running`, then asyncio.sleep
LoopEnter(l) ==
    /\ pc[l] = "created"
    /\ pc' = [pc EXCEPT ![l] = IF running THEN "sleep" ELSE "done"]
    /\ last_log' = << >>
    /\ UNCHANGED << now, agent_registry, heap, running, discovery_task, found,
                    entry, new_registry >>
    /\ UNCHANGED strategyVars
    /\ UNCHANGED routeVars

\* a loop that calls refresh() after its sleep without looking at _running
LoopWake_unchecked(l) ==
    /\ pc[l] = "sleep"
    /\ HasRoom
    /\ pc' = [pc EXCEPT ![l] = "discover"]
    /\ last_log' = << >>
    /\ UNCHANGED << now, agent_registry, heap, running, discovery_task, found,
                    entry, new_registry >>
    /\ UNCHANGED strategyVars
    /\ UNCHANGED routeVars

\* asyncio.sleep returns: `if self._running: await self.refresh()`
LoopWake(l) ==
    /\ pc[l] = "sleep"
    /\ running => HasRoom
    /\ pc' = [pc EXCEPT ![l] = IF running THEN "discover" ELSE "done"]
    /\ last_log' = << >>
    /\ UNCHANGED << now, agent_registry, heap, running, discovery_task, found,
                    entry, new_registry >>
    /\ UNCHANGED strategyVars
    /\ UNCHANGED routeVars

\* a loop that the exception of a refresh() ends
RefreshRaise_breaks(l) ==
    /\ l \in LoopTasks
    /\ pc[l] = "discover"
    /\ pc' = [pc EXCEPT ![l] = "done"]
    /\ last_log' = << [ msg |-> "Discovery loop error", task |-> l ] >>
    /\ UNCHANGED << now, agent_registry, heap, running, discovery_task, found,
                    entry, new_registry >>
    /\ UNCHANGED strategyVars
    /\ UNCHANGED routeVars

\* refresh() raises an Exception into _discovery_loop (a refresh replaced by
\* a failing one, or one whose own handler fails): `except Exception` logs
\* "Discovery loop error" and the loop goes back to `while self._running`
\* (lines 69-71)
RefreshRaise(l) ==
    /\ l \in LoopTasks
    /\ pc[l] = "discover"
    /\ pc' = [pc EXCEPT ![l] = IF running THEN "sleep" ELSE "done"]
    /\ last_log' = << [ msg |-> "Discovery loop error", task |-> l ] >>
    /\ UNCHANGED << now, agent_registry, heap, running, discovery_task, found,
                    entry, new_registry >>
    /\ UNCHANGED strategyVars
    /\ UNCHANGED routeVars

\* api.py refresh_agents: background_tasks.add_task(discovery.refresh)
ManualRefresh ==
    /\ pc["manual"] = "idle"
    /\ HasRoom
    /\ pc' = [pc EXCEPT !["manual"] = "discover"]
    /\ last_log' = << >>
    /\ UNCHANGED << now, agent_registry, heap, running, discovery_task, found,
                    entry, new_registry >>
    /\ UNCHANGED strategyVars
    /\ UNCHANGED routeVars

\* the wall clock advances
Tick ==
    /\ now < MaxTime
    /\ now' = now + 1
    /\ UNCHANGED << agent_registry, heap, running, discovery_task, pc, found,
                    entry, new_registry, last_log >>
    /\ UNCHANGED strategyVars
    /\ UNCHANGED routeVars

\* The wall clock advances without bound.  Only the age of last_seen against
\* the stale window is ever read, so past MaxTime the readings are kept
\* relative: the origin slides by one and every last_seen with it (an entry
\* older than the window stays older than the window).
Advance ==
    /\ IF now < MaxTime
       THEN now' = now + 1 /\ heap' = heap
       ELSE /\ now' = now
            /\ heap' = [ r \in DOMAIN heap |->
                          [heap[r] EXCEPT !.last_seen =
                               IF @ > 0 THEN @ - 1 ELSE 0] ]
    /\ last_log' = << >>
    /\ UNCHANGED << agent_registry, running, discovery_task, pc, found,
                    entry, new_registry >>
    /\ UNCHANGED strategyVars
    /\ UNCHANGED routeVars

(***************************************************************************)
(* UnifiedDiscoveryService.__init__ (lines 25-29)                          *)
(***************************************************************************)
\* a container description without ports, bindings or labels
NoContainer == [ Ports |-> << >>, NetworkPorts |-> << >>, capabilities |-> << >> ]

\* no strategy was asked to discover anything
NotCalled == [ strategy |-> "none", all_failed |-> FALSE, agent |-> << >> ]

ServiceInit ==
    /\ now = 0
    /\ agent_registry = EmptyMap
    /\ heap = EmptyMap
    /\ running = FALSE
    /\ discovery_task = "None"
    /\ pc = [ p \in Runners |-> IF p \in LoopTasks THEN "none" ELSE "idle" ]
    /\ found = [ p \in Runners |-> << >> ]
    /\ entry = [ p \in Runners |-> NoRef ]
    /\ new_registry = [ p \in Runners |-> EmptyMap ]
    /\ last_log = << >>
    /\ req_pc = [ c \in Clients |-> "idle" ]
    /\ request = [ c \in Clients |-> NoRequest ]
    /\ decision = [ c \in Clients |-> NoDecision ]
    /\ response = [ c \in Clients |-> NoResponse ]
    /\ metrics = OrchestrationMetrics
    /\ served = 0

\* the service never hands a container to a strategy's discover()
Init ==
    /\ ServiceInit
    /\ container_info = NoContainer
    /\ discovered = NotCalled

(***************************************************************************)
(* discovery.py: the query API (lines 356-395), models.py has_capability   *)
(***************************************************************************)
EntryOf(id) == heap[agent_registry[id]]

\* the fields of a DiscoveredAgent that a caller can read
Descriptor(a) ==
    [ agent_id |-> a.agent_id, endpoint |-> a.endpoint, caps |-> a.caps,
      status |-> a.status ]

get_all_agents ==
    { Descriptor(EntryOf(id).agent) : id \in DOMAIN agent_registry }

get_healthy_agents ==
    { Descriptor(EntryOf(id).agent) :
        id \in { i \in DOMAIN agent_registry :
                   EntryOf(i).agent.status = HEALTHY } }

\* None is modelled as the empty set, an agent as a singleton
get_agent(agent_id) ==
    IF agent_id \in DOMAIN agent_registry
    THEN { Descriptor(EntryOf(agent_id).agent) } ELSE {}

get_agents_by_protocol(protocol) ==
    { Descriptor(EntryOf(id).agent) :
        id \in { i \in DOMAIN agent_registry : ProtocolOf(i) = protocol } }

\* DiscoveredAgent.get_capability_names
get_capability_names(agent) ==
    LET capabilities == CapabilitiesOf(agent.agent_id, agent.caps)
    IN  { capabilities[i].name : i \in DOMAIN capabilities }

\* DiscoveredAgent.has_capability: capability_name.lower() in the names
has_capability(agent, capability_name) ==
    Lower(capability_name) \in get_capability_names(agent)

get_agents_by_capability(capability_name) ==
    { Descriptor(EntryOf(id).agent) :
        id \in { i \in DOMAIN agent_registry :
                   has_capability(EntryOf(i).agent, capability_name) } }

\* what a reader of the registry can observe of it
RegistryView ==
    [ id \in DOMAIN agent_registry |->
        [ agent |-> Descriptor(EntryOf(id).agent),
          last_seen |-> EntryOf(id).last_seen,
          consecutive_failures |-> EntryOf(id).consecutive_failures ] ]

(***************************************************************************)
(* agent.py: route_request (lines 204-284), process_request (286-373)      *)
(***************************************************************************)
\* route_request awaits the decision backend (self.agent.run); its answer is
\* result.data: any selected agent (also one the registry does not hold),
\* any confidence (in tenths), with or without an error string
BackendAnswers ==
    [ selected_agent : AgentIds \cup { GHOST, NoAgent },
      confidence     : Confidences,
      error          : { NoError, "backend error" } ]

\* str(e) of what self.agent.run raises, or of the AttributeError raised at
\* line 240 when result.data is not a RoutingDecision
BackendErrors == { "", "timeout", "'dict' object has no attribute" }

\* a mark_agent_request that counts an unknown id against every entry
mark_agent_request_spills(h, agent_id) ==
    IF agent_id \in DOMAIN agent_registry
    THEN [h EXCEPT ![agent_registry[agent_id]] = mark_request(@, now)]
    ELSE [ r \in DOMAIN h |-> mark_request(h[r], now) ]

\* discovery.py mark_agent_request (lines 397-401)
mark_agent_request(h, agent_id) ==
    IF agent_id \in DOMAIN agent_registry
    THEN [h EXCEPT ![agent_registry[agent_id]] = mark_request(@, now)]
    ELSE h

\* lines 236-260: the decision is result.data as the backend gave it
RoutedDecision(answer) ==
    [ selected_agent |-> answer.selected_agent,
      confidence     |-> answer.confidence,
      reasoning      |-> << "backend reasoning" >>,
      error          |-> answer.error ]

\* models.py RoutingDecision.is_successful (lines 174-176)
is_successful(d) == d.selected_agent # NoAgent /\ d.error = NoError

\* lines 275-284: the fallback decision of the exception handler
FallbackDecision(e) ==
    [ selected_agent |-> NoAgent,
      confidence     |-> 0,
      reasoning      |-> << "Routing failed due to error: ", e >>,
      error          |-> e ]

\* len() of a string given in pieces
TextLen(pieces) == Cardinality({ i \in DOMAIN pieces : pieces[i] # "" })

\* a process_request that executes whatever route_request selected
AfterRoute_no_revalidation(c, d) ==
    /\ decision' = [decision EXCEPT ![c] = d]
    /\ UNCHANGED response
    /\ req_pc' = [req_pc EXCEPT ![c] =
                    IF request[c].entry = "process" /\ d.selected_agent # NoAgent
                    THEN "execute" ELSE "idle"]

\* process_request after route_request has returned d (lines 294-335): the
\* health of the selection is read from the registry by get_healthy_agents
AfterRoute(c, d) ==
    /\ decision' = [decision EXCEPT ![c] = d]
    /\ IF request[c].entry = "route"
       THEN /\ req_pc' = [req_pc EXCEPT ![c] = "idle"]
            /\ UNCHANGED response
       ELSE IF d.selected_agent = NoAgent
       THEN /\ req_pc' = [req_pc EXCEPT ![c] = "idle"]
            /\ response' = [response EXCEPT ![c] =
                  [ agent_id |-> "none", success |-> FALSE,
                    reason |-> "no_agent_selected" ]]
       ELSE IF d.selected_agent
                 \notin { a.agent_id : a \in get_healthy_agents }
       THEN /\ req_pc' = [req_pc EXCEPT ![c] = "idle"]
            /\ response' = [response EXCEPT ![c] =
                  [ agent_id |-> d.selected_agent, success |-> FALSE,
                    reason |-> "agent_not_available" ]]
       ELSE /\ req_pc' = [req_pc EXCEPT ![c] = "execute"]
            /\ UNCHANGED response

\* POST /route: route_request up to `await self.agent.run`
RouteCall(c) ==
    /\ req_pc[c] = "idle"
    /\ served < MaxRequests
    /\ served' = served + 1
    /\ \E hint \in AgentIds \cup { NoAgent } :
          request' = [request EXCEPT ![c] =
                         [ entry |-> "route", preferred_agent |-> hint ]]
    /\ req_pc' = [req_pc EXCEPT ![c] = "run"]
    /\ UNCHANGED strategyVars
    /\ UNCHANGED << now, agent_registry, heap, running, discovery_task, pc,
                    found, entry, new_registry, last_log, decision, response,
                    metrics >>

\* POST /process: process_request, which calls route_request
ProcessCall(c) ==
    /\ req_pc[c] = "idle"
    /\ served < MaxRequests
    /\ served' = served + 1
    /\ \E hint \in AgentIds \cup { NoAgent } :
          request' = [request EXCEPT ![c] =
                         [ entry |-> "process", preferred_agent |-> hint ]]
    /\ req_pc' = [req_pc EXCEPT ![c] = "run"]
    /\ UNCHANGED strategyVars
    /\ UNCHANGED << now, agent_registry, heap, running, discovery_task, pc,
                    found, entry, new_registry, last_log, decision, response,
                    metrics >>

\* a route_request without the `else` of line 249: a decision that selects
\* no agent is counted in total_requests only
BackendReturn_no_failed(c) ==
    /\ req_pc[c] = "run"
    /\ \E answer \in BackendAnswers :
          LET d == RoutedDecision(answer)
          IN  /\ IF d.selected_agent # NoAgent
                 THEN /\ metrics' = [metrics EXCEPT
                                        !.total_requests = @ + 1,
                                        !.successful_requests = @ + 1]
                      /\ heap' = mark_agent_request(heap, d.selected_agent)
                 ELSE /\ metrics' = [metrics EXCEPT
                                        !.total_requests = @ + 1]
                      /\ heap' = heap
              /\ last_log' = << [ msg |-> "Request routed successfully",
                                  client |-> c,
                                  selected_agent |-> d.selected_agent ] >>
              /\ AfterRoute(c, d)
    /\ UNCHANGED strategyVars
    /\ UNCHANGED << now, agent_registry, running, discovery_task, pc, found,
                    entry, new_registry, request, served >>

\* self.agent.run returns (lines 236-260), then the caller goes on
BackendReturn(c) ==
    /\ req_pc[c] = "run"
    /\ \E answer \in BackendAnswers :
          LET d == RoutedDecision(answer)
          IN  /\ IF d.selected_agent # NoAgent
                 THEN /\ metrics' = [metrics EXCEPT
                                        !.total_requests = @ + 1,
                                        !.successful_requests = @ + 1]
                      /\ heap' = mark_agent_request(heap, d.selected_agent)
                 ELSE /\ metrics' = [metrics EXCEPT
                                        !.total_requests = @ + 1,
                                        !.failed_requests = @ + 1]
                      /\ heap' = heap
              /\ last_log' = << [ msg |-> "Request routed successfully",
                                  client |-> c,
                                  selected_agent |-> d.selected_agent ] >>
              /\ AfterRoute(c, d)
    /\ UNCHANGED strategyVars
    /\ UNCHANGED << now, agent_registry, running, discovery_task, pc, found,
                    entry, new_registry, request, served >>

\* a route_request whose exception handler hands the backend's error on
BackendRaise_propagates(c) ==
    /\ req_pc[c] = "run"
    /\ req_pc' = [req_pc EXCEPT ![c] = "raised"]
    /\ last_log' = << [ msg |-> "Request routing failed", client |-> c,
                         selected_agent |-> NoAgent ] >>
    /\ UNCHANGED strategyVars
    /\ UNCHANGED << now, agent_registry, heap, running, discovery_task, pc,
                    found, entry, new_registry, request, served, decision,
                    response, metrics >>

\* self.agent.run raises, or result.data is malformed (lines 262-284), then
\* the caller goes on
BackendRaise(c) ==
    /\ req_pc[c] = "run"
    /\ \E e \in BackendErrors :
          /\ metrics' = [metrics EXCEPT !.total_requests = @ + 1,
                                        !.failed_requests = @ + 1]
          /\ last_log' = << [ msg |-> "Request routing failed", client |-> c,
                              selected_agent |-> NoAgent ] >>
          /\ AfterRoute(c, FallbackDecision(e))
    /\ UNCHANGED strategyVars
    /\ UNCHANGED << now, agent_registry, heap, running, discovery_task, pc,
                    found, entry, new_registry, request, served >>

\* _execute_on_agent returns (lines 335-352)
ExecuteReturn(c) ==
    /\ req_pc[c] = "execute"
    /\ req_pc' = [req_pc EXCEPT ![c] = "idle"]
    /\ response' = [response EXCEPT ![c] =
          [ agent_id |-> decision[c].selected_agent, success |-> TRUE,
            reason |-> "-" ]]
    /\ last_log' = << [ msg |-> "Executing request on agent", client |-> c,
                         selected_agent |-> decision[c].selected_agent ] >>
    /\ UNCHANGED strategyVars
    /\ UNCHANGED << now, agent_registry, heap, running, discovery_task, pc,
                    found, entry, new_registry, request, served, decision,
                    metrics >>

(***************************************************************************)
(* protocols/: health_check of the discovery strategies                    *)
(***************************************************************************)
\* the status words the strategies compare with, as character sequences
S_healthy == << "h", "e", "a", "l", "t", "h", "y" >>
S_degraded == << "d", "e", "g", "r", "a", "d", "e", "d" >>
S_warning == << "w", "a", "r", "n", "i", "n", "g" >>
S_unhealthy == << "u", "n", "h", "e", "a", "l", "t", "h", "y" >>
S_error == << "e", "r", "r", "o", "r" >>
S_critical == << "c", "r", "i", "t", "i", "c", "a", "l" >>
S_alive == << "a", "l", "i", "v", "e" >>
S_active == << "a", "c", "t", "i", "v", "e" >>
S_ready == << "r", "e", "a", "d", "y" >>
S_busy == << "b", "u", "s", "y" >>
S_dead == << "d", "e", "a", "d" >>
S_inactive == << "i", "n", "a", "c", "t", "i", "v", "e" >>

\* the "status" of a health document: the words above as served, two of them
\* in another case, a word no strategy knows, and the empty string (which is
\* also what data.get("status", "") gives when the key is missing)
StatusTexts ==
    { S_healthy, S_degraded, S_warning, S_unhealthy, S_error, S_critical, S_alive, S_active,
      S_ready, S_busy, S_dead, S_inactive,
      << "H", "e", "a", "l", "t", "h", "y" >>, << "U", "N", "H", "E", "A", "L", "T", "H", "Y" >>,
      << "o", "k" >>, << >> }

\* the outcome of one HTTP request of a health check: 200 with a JSON
\* document, 200 with a body response.json() or .lower() fails on, another
\* status code, httpx.RequestError (timeouts included), any other exception
ProbeResult ==
    [ kind : { "200" }, status : StatusTexts ]
       \cup [ kind : { "200-unparseable", "non-200", "request_error",
                       "exception" },
              status : { << >> } ]

\* the first request of a strategy, and its fallback requests, of which only
\* the status code is read
HealthProbes ==
    [ first : ProbeResult,
      second : { "200", "non-200", "request_error", "exception" },
      third  : { "200", "non-200", "request_error", "exception" } ]

\* a strategy whose handler lets the exception through
Caught_not(x) == x

\* `except Exception: ... return AgentStatus.UNKNOWN` around a strategy's
\* body; "raise" stands for an exception leaving the body
Caught(x) == IF x = "raise" THEN UNKNOWN ELSE x

\* acp_discovery.py health_check, the body of its try (lines 78-96)
acp_health_try(r) ==
    IF r.first.kind \in { "request_error", "exception", "200-unparseable" }
    THEN "raise"
    ELSE IF r.first.kind = "200"
    THEN LET status == Lower(r.first.status)
         IN  IF status = S_healthy THEN HEALTHY
             ELSE IF status \in { S_degraded, S_warning } THEN DEGRADED
             ELSE IF status \in { S_unhealthy, S_error, S_critical }
             THEN UNHEALTHY
             ELSE IF status # << >> THEN HEALTHY ELSE UNKNOWN
    ELSE UNHEALTHY

\* a2a_discovery.py health_check, the body of its try (lines 70-105): POST
\* /ping, and GET /health when the ping raised httpx.RequestError
a2a_health_try(r) ==
    IF r.first.kind \in { "exception", "200-unparseable" } THEN "raise"
    ELSE IF r.first.kind = "request_error"
    THEN IF r.second \in { "request_error", "exception" } THEN "raise"
         ELSE IF r.second = "200" THEN HEALTHY ELSE UNHEALTHY
    ELSE IF r.first.kind = "200"
    THEN LET status == Lower(r.first.status)
         IN  IF status \in { S_alive, S_active, S_ready } THEN HEALTHY
             ELSE IF status \in { S_busy, S_degraded } THEN DEGRADED
             ELSE IF status \in { S_dead, S_inactive, S_error } THEN UNHEALTHY
             ELSE IF status # << >> THEN HEALTHY ELSE UNKNOWN
    ELSE UNHEALTHY

\* the tail of the MCP and generic checks: GET of the root endpoint
root_try(r, otherwise) ==
    IF r.third \in { "request_error", "exception" } THEN "raise"
    ELSE IF r.third = "200" THEN HEALTHY ELSE otherwise

\* mcp_discovery.py health_check, the body of its try (lines 74-107): GET
\* /health, then /tools, then the root endpoint
mcp_health_try(r) ==
    IF r.first.kind \in { "exception", "200-unparseable" } THEN "raise"
    ELSE IF r.first.kind = "200"
    THEN LET status == Lower(r.first.status)
         IN  IF status = S_healthy THEN HEALTHY
             ELSE IF status \in { S_degraded, S_warning } THEN DEGRADED
             ELSE IF status \in { S_unhealthy, S_error } THEN UNHEALTHY
             ELSE HEALTHY
    ELSE IF r.second = "exception" THEN "raise"
    ELSE IF r.second = "200" THEN HEALTHY
    ELSE root_try(r, UNHEALTHY)

\* base.py GenericDiscoveryStrategy.health_check, the body of its try (lines
\* 158-171) followed by `return AgentStatus.UNKNOWN` (line 180); the body of
\* a 200 response is not read
generic_health_try(r) ==
    IF r.first.kind = "exception" THEN "raise"
    ELSE IF r.first.kind \in { "200", "200-unparseable" } THEN HEALTHY
    ELSE root_try(r, UNKNOWN)

\* ProtocolType values; "custom" has no strategy of its own
Protocols == { "acp", "a2a", "mcp", "custom" }

\* get_discovery_strategy(protocol).health_check(agent)
health_check(protocol, r) ==
    CASE protocol = "acp" -> Caught(acp_health_try(r))
      [] protocol = "a2a" -> Caught(a2a_health_try(r))
      [] protocol = "mcp" -> Caught(mcp_health_try(r))
      [] OTHER            -> Caught(generic_health_try(r))

\* what the health check of the agent task p is waiting for can answer; a
\* strategy replaced by a failing one (as the tests do) raises
HealthCheckResults(p) ==
    IF found[p] = << >> THEN {}
    ELSE { health_check(ProtocolOf(Head(found[p]).agent_id), r) :
             r \in HealthProbes } \cup { "raise" }

(***************************************************************************)
(* protocols/: discover of the discovery strategies                        *)
(***************************************************************************)
\* entries of container_info["Ports"]; 0 stands for a key that is missing,
\* null or 0, which the code does not tell apart (`if port_info.get(...)`)
PortInfos ==
    { [ PublicPort |-> 0, PrivatePort |-> 0 ],
      [ PublicPort |-> 0, PrivatePort |-> 80 ],
      [ PublicPort |-> 8080, PrivatePort |-> 80 ] }

PortLists ==
    { << >> } \cup { << x >> : x \in PortInfos }
       \cup { << [ PublicPort |-> 0, PrivatePort |-> 0 ], x >> : x \in PortInfos }

\* texts Docker may give as "HostPort"
H_9000 == << "9", "0", "0", "0" >>
H_8000 == << "8", "0", "0", "0" >>
H_abc == << "a", "b", "c" >>

\* values of container_info["NetworkSettings"]["Ports"], in dict order: the
\* bindings of a port_spec (None is << >>), each binding with or without
\* the key "HostPort"
Bindings ==
    { << >>,
      << [ has_HostPort |-> FALSE, HostPort |-> << >> ] >>,
      << [ has_HostPort |-> TRUE, HostPort |-> H_9000 ] >>,
      << [ has_HostPort |-> TRUE, HostPort |-> H_abc ] >>,
      << [ has_HostPort |-> TRUE, HostPort |-> << >> ] >> }

BindingLists ==
    { << >> } \cup { << b >> : b \in Bindings }
       \cup { << << [ has_HostPort |-> TRUE, HostPort |-> H_abc ] >>, b >> :
                 b \in Bindings }

\* the label agent.capabilities after split(",") and strip()
CapabilityLabels == { << >>, << "" >>, << "greeting", "math" >> }

ContainerInfos ==
    [ Ports : PortLists, NetworkPorts : BindingLists,
      capabilities : CapabilityLabels ]

\* Python's None where a port is expected
NoPort == -1

DigitOf(c) ==
    CASE c = "0" -> 0 [] c = "1" -> 1 [] c = "2" -> 2 [] c = "3" -> 3
      [] c = "4" -> 4 [] c = "5" -> 5 [] c = "6" -> 6 [] c = "7" -> 7
      [] c = "8" -> 8 [] c = "9" -> 9 [] OTHER -> NoPort

\* int(text) on the texts above; NoPort for ValueError
RECURSIVE IntFrom(_, _)
IntFrom(acc, text) ==
    IF text = << >> THEN acc
    ELSE IF DigitOf(Head(text)) = NoPort THEN NoPort
    ELSE IntFrom(acc * 10 + DigitOf(Head(text)), Tail(text))

int(text) == IF text = << >> THEN NoPort ELSE IntFrom(0, text)

\* base.py _extract_port, the loop over NetworkSettings.Ports (lines 69-75)
RECURSIVE port_bindings(_)
port_bindings(specs) ==
    IF specs = << >> THEN NoPort
    ELSE LET bindings == Head(specs)
             text == IF bindings[1].has_HostPort THEN bindings[1].HostPort
                     ELSE H_8000
         IN  IF Len(bindings) > 0 /\ int(text) # NoPort THEN int(text)
             ELSE port_bindings(Tail(specs))

\* base.py _extract_port, the loop over Ports (lines 59-66), then the above
RECURSIVE ports_from(_, _)
ports_from(ports, ci) ==
    IF ports = << >> THEN port_bindings(ci.NetworkPorts)
    ELSE IF Head(ports).PublicPort # 0 THEN Head(ports).PublicPort
    ELSE IF Head(ports).PrivatePort # 0 THEN Head(ports).PrivatePort
    ELSE ports_from(Tail(ports), ci)

_extract_port(ci) == ports_from(ci.Ports, ci)

\* `if not base_info["port"]`
not(port) == port = NoPort \/ port = 0

\* _build_endpoint_url: the port of the endpoint
_build_endpoint_url(port) == IF not(port) THEN 8000 ELSE port

\* the outcome of one HTTP request of discover(): 200 with the document the
\* dialect expects, 200 with an empty JSON object, another status code,
\* httpx.RequestError, any other exception
Outcome == { "200", "200-empty", "non-200", "request_error", "exception" }

\* whether httpx.AsyncClient can be entered, and what each request gets
Networks == [ client : { "ok", "raise" }, calls : [ 1..4 -> Outcome ] ]

\* Optional[DiscoveredAgent]: None is << >>
None == << >>

DiscoveredAgent(protocol, endpoint, discovery_method, status, capabilities) ==
    << [ protocol |-> protocol, endpoint |-> endpoint,
         discovery_method |-> discovery_method, status |-> status,
         capabilities |-> capabilities ] >>

\* the capability names read from the label agent.capabilities
LabelCapabilities(ci) == SelectSeq(ci.capabilities, LAMBDA cap_name : cap_name # "")

\* _fallback_discovery of the ACP, A2A and MCP strategies
_fallback_discovery(protocol, ci, endpoint) ==
    DiscoveredAgent(protocol, endpoint, "fallback", UNKNOWN,
                    IF LabelCapabilities(ci) = << >> THEN << "unknown" >>
                    ELSE LabelCapabilities(ci))

\* _fetch_capabilities, _fetch_schema, _fetch_tools, ...: the document of a
\* 200 response, the empty document on anything else
fetch(outcome) == IF outcome = "200" THEN "document" ELSE "empty"

\* acp_discovery.py discover (lines 16-73)
acp_discover(ci, net) ==
    LET port == _extract_port(ci)
        endpoint == _build_endpoint_url(port)
        capabilities_data == fetch(net.calls[1])
        schema_data == fetch(net.calls[2])
    IN  IF not(port) THEN None
        ELSE IF net.client = "raise"
        THEN _fallback_discovery("acp", ci, endpoint)
        ELSE DiscoveredAgent("acp", endpoint, "acp_native", HEALTHY,
                 IF capabilities_data = "document" THEN << "native" >>
                 ELSE IF schema_data = "document" THEN << "generic" >>
                 ELSE << >>)

\* a2a_discovery.py _query_a2a_agent (lines 115-161) from method i on
RECURSIVE query_from(_, _)
query_from(i, net) ==
    IF i > 4 THEN "None"
    ELSE CASE net.calls[i] = "200" -> "document"
           [] net.calls[i] = "200-empty" ->
                 IF i < 4 THEN "empty" ELSE "None"
           [] net.calls[i] = "exception" -> "None"
           [] OTHER -> query_from(i + 1, net)

_query_a2a_agent(net) ==
    IF net.client = "raise" THEN "None" ELSE query_from(1, net)

\* a2a_discovery.py discover (lines 20-65)
a2a_discover(ci, net) ==
    LET port == _extract_port(ci)
        endpoint == _build_endpoint_url(port)
        agent_info == _query_a2a_agent(net)
    IN  IF not(port) THEN None
        ELSE IF agent_info = "document"
        THEN DiscoveredAgent("a2a", endpoint, "a2a_native", HEALTHY,
                             << "native" >>)
        ELSE _fallback_discovery("a2a", ci, endpoint)

\* mcp_discovery.py discover (lines 16-69)
mcp_discover(ci, net) ==
    LET port == _extract_port(ci)
        endpoint == _build_endpoint_url(port)
        tools == fetch(net.calls[1])
        resources == fetch(net.calls[2])
    IN  IF not(port) THEN None
        ELSE IF net.client = "raise"
        THEN _fallback_discovery("mcp", ci, endpoint)
        ELSE DiscoveredAgent("mcp", endpoint, "mcp_native", HEALTHY,
                 (IF tools = "document" THEN << "tool" >> ELSE << >>)
                    \o (IF resources = "document" THEN << "resource" >>
                        ELSE << >>))

\* base.py GenericDiscoveryStrategy.discover (lines 111-154)
generic_discover(ci, net) ==
    LET port == _extract_port(ci)
        endpoint == _build_endpoint_url(port)
    IN  IF not(port) THEN None
        ELSE IF net.client = "ok" /\ net.calls[1] \in { "200", "200-empty" }
        THEN DiscoveredAgent("custom", endpoint, "generic", HEALTHY,
                             LabelCapabilities(ci))
        ELSE None

\* get_discovery_strategy(protocol).discover(container_info)
discover(protocol, ci, net) ==
    CASE protocol = "acp" -> acp_discover(ci, net)
      [] protocol = "a2a" -> a2a_discover(ci, net)
      [] protocol = "mcp" -> mcp_discover(ci, net)
      [] OTHER            -> generic_discover(ci, net)

\* no request of the call got a 200 response
AllFailed(net) ==
    \/ net.client = "raise"
    \/ \A i \in DOMAIN net.calls :
          net.calls[i] \in { "non-200", "request_error", "exception" }

\* the call of discover() on the strategy of a protocol, for the candidate;
\* the strategies keep no state, so one call per candidate is followed.
\* `discovered` also records whether every request of the call failed.
Discover ==
    \E protocol \in Protocols, net \in Networks :
        /\ discovered = NotCalled
        /\ discovered' = [ strategy |-> protocol,
                           all_failed |-> AllFailed(net),
                           agent |-> discover(protocol, container_info, net) ]
        /\ UNCHANGED << now, agent_registry, heap, running, discovery_task, pc,
                        found, entry, new_registry, last_log, container_info >>
        /\ UNCHANGED routeVars

(***************************************************************************)
(* Environments.  Each specification below lets the network answer from    *)
(* one of these sets.                                                      *)
(***************************************************************************)
AllKinds ==
    { [ id \in AgentIds |-> CapsKindAfter(id, got[id]) ] :
        got \in [AgentIds -> FetchOutcomes] }

\* the host-networking fallback endpoints (localhost) do not answer
ServiceProbes ==
    { probe \in ProbeOutcomes :
        \A i \in DOMAIN known_endpoints :
            known_endpoints[i].host = "localhost" => probe[i] = "fail" }

(***************************************************************************)
(* Spec: the reconciler driven by refresh() calls that follow one another  *)
(* (POST /agents/refresh), with both agents and every health outcome.      *)
(***************************************************************************)
Next ==
    \/ ManualRefresh
    \/ Tick
    \/ DiscoverReturn("manual", ServiceProbes, AllKinds)
    \/ DiscoverRaise("manual")
    \/ HealthReturn("manual", HealthOutcomes)

Spec == Init /\ [][Next]_vars


(***************************************************************************)
(* SpecLife: the lifecycle of api.py lifespan (start() twice, stop()), the  *)
(* loop tasks and POST /agents/refresh, interleaved at their suspension     *)
(* points.  One agent answers; its health check is healthy or not.          *)
(***************************************************************************)
AcpProbes ==
    { probe \in ServiceProbes :
        \A i \in DOMAIN known_endpoints :
            known_endpoints[i].protocol # "acp" => probe[i] = "fail" }

CardKinds == { [id \in AgentIds |-> "card"] }

NextLife ==
    \/ Start
    \/ Stop
    \/ ManualRefresh
    \/ \E l \in LoopTasks : LoopEnter(l)
    \/ \E l \in LoopTasks : LoopWake(l)
    \/ \E p \in Runners : DiscoverReturn(p, AcpProbes, CardKinds)
    \/ \E p \in Runners : DiscoverRaise(p)
    \/ \E p \in Runners : HealthReturn(p, { HEALTHY, UNHEALTHY })

SpecLife == Init /\ [][NextLife]_vars

(***************************************************************************)
(* SpecFair: the service after start(), with the periodic loop scheduled    *)
(* fairly, the clock advancing, one agent answering the probes, and no      *)
(* health check ever answering healthy.                                     *)
(***************************************************************************)
Unwell == HealthOutcomes \ { HEALTHY }

NextFair ==
    \/ Start
    \/ Advance
    \/ \E l \in LoopTasks : LoopEnter(l)
    \/ \E l \in LoopTasks : LoopWake(l)
    \/ \E p \in Runners : DiscoverReturn(p, AcpProbes, CardKinds)
    \/ \E p \in Runners : HealthReturn(p, Unwell)

SpecFair ==
    /\ Init
    /\ [][NextFair]_vars
    /\ WF_vars(Start)
    /\ WF_vars(Advance)
    /\ \A l \in LoopTasks : WF_vars(LoopEnter(l)) /\ WF_vars(LoopWake(l))
    /\ \A p \in Runners :
          /\ WF_vars(DiscoverReturn(p, AcpProbes, CardKinds))
          /\ WF_vars(HealthReturn(p, Unwell))

(***************************************************************************)
(* SpecRoute: routing requests interleaved with refresh() calls that follow *)
(* one another; one agent answers, its health check is healthy or not.      *)
(***************************************************************************)
NextRoute ==
    \/ ManualRefresh
    \/ DiscoverReturn("manual", AcpProbes, CardKinds)
    \/ HealthReturn("manual", { HEALTHY, UNHEALTHY })
    \/ \E c \in Clients : RouteCall(c)
    \/ \E c \in Clients : ProcessCall(c)
    \/ \E c \in Clients : BackendReturn(c)
    \/ \E c \in Clients : BackendRaise(c)
    \/ \E c \in Clients : ExecuteReturn(c)

SpecRoute == Init /\ [][NextRoute]_vars

(***************************************************************************)
(* SpecProbe: refresh() calls that follow one another, every one of the     *)
(* four endpoints answering or not, the localhost fallbacks included.       *)
(***************************************************************************)
NextProbe ==
    \/ ManualRefresh
    \/ DiscoverReturn("manual", ProbeOutcomes, CardKinds)
    \/ HealthReturn("manual", { HEALTHY, UNHEALTHY })

SpecProbe == Init /\ [][NextProbe]_vars

(***************************************************************************)
(* SpecHealth: refresh() calls that follow one another, both agents, each   *)
(* health check answered by the strategy of the agent's protocol.           *)
(***************************************************************************)
NextHealth ==
    \/ ManualRefresh
    \/ Tick
    \/ DiscoverReturn("manual", ServiceProbes, CardKinds)
    \/ HealthReturn("manual", HealthCheckResults("manual"))

SpecHealth == Init /\ [][NextHealth]_vars

(***************************************************************************)
(* SpecLoop: start() and stop() called at any time, the loop tasks          *)
(* scheduled fairly, their cycles completing, failing inside refresh() or   *)
(* raising into the loop.  A sleep that has ended is acted on (strong       *)
(* fairness: the bound on suspended cycles may disable it for a while).     *)
(***************************************************************************)
NextLoop ==
    \/ Start
    \/ Stop
    \/ \E l \in LoopTasks : LoopEnter(l)
    \/ \E l \in LoopTasks : LoopWake(l)
    \/ \E l \in LoopTasks : RefreshRaise(l)
    \/ \E p \in Runners : DiscoverReturn(p, AcpProbes, CardKinds)
    \/ \E p \in Runners : DiscoverRaise(p)
    \/ \E p \in Runners : HealthReturn(p, { HEALTHY, UNHEALTHY })

SpecLoop ==
    /\ Init
    /\ [][NextLoop]_vars
    /\ \A l \in LoopTasks : WF_vars(LoopEnter(l)) /\ SF_vars(LoopWake(l))
    /\ \A p \in Runners :
          /\ WF_vars(DiscoverReturn(p, AcpProbes, CardKinds))
          /\ WF_vars(HealthReturn(p, { HEALTHY, UNHEALTHY }))

(***************************************************************************)
(* SpecCount: POST /route requests while the refresh() of start() and the   *)
(* refresh() of POST /agents/refresh run, one suspended while the other     *)
(* proceeds.  One agent answers.                                            *)
(***************************************************************************)
NextCount ==
    \/ Start
    \/ ManualRefresh
    \/ \E p \in { "main", "manual" } : DiscoverReturn(p, AcpProbes, CardKinds)
    \/ \E p \in { "main", "manual" } : HealthReturn(p, { HEALTHY, UNHEALTHY })
    \/ \E c \in Clients : RouteCall(c)
    \/ \E c \in Clients : BackendReturn(c)

SpecCount == Init /\ [][NextCount]_vars

(***************************************************************************)
(* SpecMetrics: two callers of POST /route and POST /process whose          *)
(* route_request calls are suspended in self.agent.run at the same time;    *)
(* no refresh() has run, the registry is as constructed.                    *)
(***************************************************************************)
Callers == { "c1", "c2" }

InitMetrics ==
    /\ now = 0
    /\ agent_registry = EmptyMap
    /\ heap = EmptyMap
    /\ running = FALSE
    /\ discovery_task = "None"
    /\ pc = [ p \in Runners |-> IF p \in LoopTasks THEN "none" ELSE "idle" ]
    /\ found = [ p \in Runners |-> << >> ]
    /\ entry = [ p \in Runners |-> NoRef ]
    /\ new_registry = [ p \in Runners |-> EmptyMap ]
    /\ last_log = << >>
    /\ req_pc = [ c \in Callers |-> "idle" ]
    /\ request = [ c \in Callers |-> NoRequest ]
    /\ decision = [ c \in Callers |-> NoDecision ]
    /\ response = [ c \in Callers |-> NoResponse ]
    /\ metrics = OrchestrationMetrics
    /\ served = 0
    /\ container_info = NoContainer
    /\ discovered = NotCalled

NextMetrics ==
    \/ \E c \in Callers : RouteCall(c)
    \/ \E c \in Callers : ProcessCall(c)
    \/ \E c \in Callers : BackendReturn(c)
    \/ \E c \in Callers : BackendRaise(c)

SpecMetrics == InitMetrics /\ [][NextMetrics]_vars

(***************************************************************************)
(* SpecStrategy: a container description handed to the discover() of the   *)
(* strategy of each protocol, its requests answered in every way.          *)
(***************************************************************************)
InitStrategy ==
    /\ ServiceInit
    /\ container_info \in ContainerInfos
    /\ discovered = NotCalled

NextStrategy == Discover

SpecStrategy == InitStrategy /\ [][NextStrategy]_vars

(***************************************************************************)
(* Properties of the reconciler                                            *)
(***************************************************************************)
CycleStates == { "discover", "health" }

Logged(msg, p) ==
    /\ Len(last_log) >= 1
    /\ last_log[1].msg = msg
    /\ last_log[1].task = p

\* the step in which task p reaches "Discovery refresh complete"
CompletedBy(p) ==
    /\ pc[p] \in CycleStates
    /\ pc'[p] \notin CycleStates
    /\ Logged("Discovery refresh complete", p)'

\* the step in which refresh() of task p catches an exception
FailedBy(p) ==
    /\ pc[p] \in CycleStates
    /\ pc'[p] \notin CycleStates
    /\ Logged("Discovery refresh failed", p)'

\* the agents the cycle of task p has discovered
Discovered(p) ==
    DOMAIN new_registry[p] \cup { found[p][i].agent_id : i \in DOMAIN found[p] }

Fresh(e, t) == e.last_seen >= t - STALE_WINDOW

\* C1: a step of a cycle that leaves the cycle suspended inside
\* _update_registry (before its swap) changes nothing a reader can observe:
\* readers see the pre-cycle registry until the swap.
C1_NoPartialMergeVisible ==
    [][ \A p \in Runners :
          (pc'[p] = "health" /\ found'[p] # found[p])
             => RegistryView' = RegistryView ]_vars

\* C3: the step in which refresh() catches the exception of a failed cycle
\* leaves the registry as it was: same ids, descriptors, counters, last_seen.
C3_FailedCycleKeepsRegistry ==
    [][ \A p \in Runners : FailedBy(p) => RegistryView' = RegistryView ]_vars

C3_Witness ==
    /\ Len(last_log) >= 1
    /\ last_log[1].msg = "Discovery refresh failed"
    /\ DOMAIN agent_registry # {}

\* C4: a completed cycle that did not discover a registered agent adds
\* exactly 1 to its consecutive_failures and keeps its descriptor; the entry
\* stays while the new counter is below MAX_FAILURES and last_seen is fresh.
C4_AbsentAddsOneFailure ==
    [][ \A p \in Runners : CompletedBy(p) =>
          \A id \in DOMAIN agent_registry \ Discovered(p) :
             LET e == EntryOf(id)
             IN  /\ id \in DOMAIN agent_registry' =>
                      /\ heap'[agent_registry'[id]].consecutive_failures
                            = e.consecutive_failures + 1
                      /\ Descriptor(heap'[agent_registry'[id]].agent)
                            = Descriptor(e.agent)
                 /\ (e.consecutive_failures + 1 < MAX_FAILURES /\ Fresh(e, now))
                      => id \in DOMAIN agent_registry' ]_vars

C4_Witness ==
    /\ Len(last_log) >= 1
    /\ last_log[1].msg = "Discovery refresh complete"
    /\ \E id \in DOMAIN agent_registry :
          /\ EntryOf(id).consecutive_failures = MAX_FAILURES - 1
          /\ EntryOf(id).agent.status = HEALTHY

\* C5: when a cycle completes, no entry of the registry has
\* consecutive_failures >= MAX_FAILURES; an undiscovered entry whose counter
\* reaches MAX_FAILURES is gone, one that reaches MAX_FAILURES - 1 with a
\* fresh last_seen is kept.
C5_NoEntryAtThreshold ==
    [][ \A p \in Runners : CompletedBy(p) =>
          /\ \A id \in DOMAIN agent_registry' :
                heap'[agent_registry'[id]].consecutive_failures < MAX_FAILURES
          /\ \A id \in DOMAIN agent_registry \ Discovered(p) :
                LET e == EntryOf(id)
                IN  /\ e.consecutive_failures + 1 >= MAX_FAILURES
                         => id \notin DOMAIN agent_registry'
                    /\ (e.consecutive_failures + 1 = MAX_FAILURES - 1
                          /\ Fresh(e, now))
                         => id \in DOMAIN agent_registry' ]_vars

C5_Witness ==
    /\ Len(last_log) >= 1
    /\ last_log[1].msg = "Discovery refresh complete"
    /\ \E r \in last_log[1].failed : r[2] = MAX_FAILURES

\* C7: when a cycle completes, no entry with last_seen older than the stale
\* window is left, whatever its counter; and every entry that is fresh with
\* a counter below MAX_FAILURES is still there.
C7_CleanupByAge ==
    [][ \A p \in Runners : CompletedBy(p) =>
          /\ \A id \in DOMAIN agent_registry' :
                Fresh(heap'[agent_registry'[id]], now')
          /\ \A id \in DOMAIN new_registry[p] :
                LET e == heap[new_registry[p][id]]
                IN  /\ ~ Fresh(e, now) => id \notin DOMAIN agent_registry'
                    /\ (Fresh(e, now) /\ e.consecutive_failures < MAX_FAILURES)
                         => id \in DOMAIN agent_registry'
          /\ \A id \in DOMAIN agent_registry \ Discovered(p) :
                LET e == EntryOf(id)
                IN  /\ ~ Fresh(e, now) => id \notin DOMAIN agent_registry'
                    /\ (Fresh(e, now)
                          /\ e.consecutive_failures + 1 < MAX_FAILURES)
                         => id \in DOMAIN agent_registry' ]_vars

C7_Witness ==
    /\ Len(last_log) >= 1
    /\ last_log[1].msg = "Discovery refresh complete"
    /\ \E r \in last_log[1].stale : r[2] = 0

\* the tokens asked for
Tokens ==
    { << "m","a","t","h" >>, << "M","A","T","H" >>, << "M","a","t","h" >>,
      << "c","a","l","c" >>, << "G","R","E","E","T" >>,
      << "g","r","e","e","t","i","n","g" >>, << "n","o","n","e" >> }

NameOrTagMatches(agent, token) ==
    LET capabilities == CapabilitiesOf(agent.agent_id, agent.caps)
    IN  \E i \in DOMAIN capabilities :
           \/ Lower(capabilities[i].name) = Lower(token)
           \/ \E j \in DOMAIN capabilities[i].tags :
                 Lower(capabilities[i].tags[j]) = Lower(token)

\* C2: at most one reconciliation cycle is in progress (between the entry of
\* refresh() and its completion) at any time.
C2_CyclesNeverOverlap == Cardinality(InFlight) <= 1

\* C6: with no health check ever answering healthy, every agent in the
\* registry is eventually removed from it.
C6_EventuallyRemoved ==
    \A id \in AgentIds :
       [] (id \in DOMAIN agent_registry
             => <> (id \notin DOMAIN agent_registry))

\* C8: get_agents_by_capability(token) returns exactly the registered agents
\* with a capability whose name or one of whose tags equals the token, case
\* ignored.
C8_CapabilityByNameOrTag ==
    \A token \in Tokens :
       { d.agent_id : d \in get_agents_by_capability(token) }
          = { id \in DOMAIN agent_registry :
                NameOrTagMatches(EntryOf(id).agent, token) }

\* the step in which route_request returns to client c
RouteReturns(c) == req_pc[c] = "run" /\ req_pc'[c] # "run"

\* C9: the agent selected by a decision that route_request returns is in the
\* registry with status Healthy at the time of the return.
C9_SelectedAgentHealthy ==
    [][ \A c \in Clients :
          (RouteReturns(c) /\ decision'[c].selected_agent # NoAgent) =>
             /\ decision'[c].selected_agent \in DOMAIN agent_registry'
             /\ heap'[agent_registry'[decision'[c].selected_agent]]
                   .agent.status = HEALTHY ]_vars

\* C10: when the decision backend raises or answers with a malformed result,
\* route_request returns (it raises nothing) a decision with no selected
\* agent, confidence 0, a non-empty reasoning and the error set, and a
\* process_request that made the call returns a response with success False.
C10_RoutingFailureIsADecision ==
    [][ \A c \in Clients :
          ( /\ req_pc[c] = "run"
            /\ Len(last_log') >= 1
            /\ last_log'[1].msg = "Request routing failed"
            /\ last_log'[1].client = c ) =>
             /\ req_pc'[c] = "idle"
             /\ decision'[c].selected_agent = NoAgent
             /\ decision'[c].confidence = 0
             /\ TextLen(decision'[c].reasoning) > 0
             /\ decision'[c].error # NoError
             /\ request[c].entry = "process" =>
                   /\ response'[c].success = FALSE
                   /\ response'[c].reason = "no_agent_selected" ]_vars

C10_Witness ==
    \E c \in Clients :
       /\ Len(last_log) >= 1
       /\ last_log[1].msg = "Request routing failed"
       /\ request[c].entry = "process"
       /\ req_pc[c] = "idle"
       /\ decision[c].error = ""
       /\ response[c].reason = "no_agent_selected"

(***************************************************************************)
(* Properties of the routing engine                                        *)
(***************************************************************************)
\* the ids get_healthy_agents returns
HealthyIds == { a.agent_id : a \in get_healthy_agents }

\* C11: when route_request hands process_request a decision whose selected
\* agent is not in the healthy set read at that moment, process_request
\* returns at once with success False and reason agent_not_available (not
\* no_agent_selected), and the agent is not executed.
C11_StaleSelectionIsLabelled ==
    [][ \A c \in Clients :
          ( /\ RouteReturns(c)
            /\ request[c].entry = "process"
            /\ decision'[c].selected_agent # NoAgent
            /\ decision'[c].selected_agent \notin HealthyIds' ) =>
             /\ req_pc'[c] = "idle"
             /\ response'[c].success = FALSE
             /\ response'[c].reason = "agent_not_available"
             /\ response'[c].reason # "no_agent_selected"
             /\ response'[c].agent_id = decision'[c].selected_agent ]_vars

C11_Witness ==
    \E c \in Clients :
       /\ req_pc[c] = "idle"
       /\ request[c].entry = "process"
       /\ response[c].reason = "agent_not_available"
       /\ decision[c].selected_agent \in DOMAIN agent_registry
       /\ decision[c].selected_agent \notin HealthyIds

\* C12: the routing engine treats a returned decision as a success exactly
\* when is_successful holds of it (agent selected and no error): it is then
\* counted in successful_requests, otherwise in failed_requests, and a
\* decision that is not successful is not executed by process_request.
C12_SuccessIffAgentAndNoError ==
    [][ \A c \in Clients : RouteReturns(c) =>
          IF is_successful(decision'[c])
          THEN /\ metrics'.successful_requests = metrics.successful_requests + 1
               /\ metrics'.failed_requests = metrics.failed_requests
          ELSE /\ metrics'.failed_requests = metrics.failed_requests + 1
               /\ metrics'.successful_requests = metrics.successful_requests
               /\ req_pc'[c] # "execute" ]_vars

\* the step in which route_request calls mark_agent_request(id) for client c
MarksRequest(c, id) ==
    /\ RouteReturns(c)
    /\ Len(last_log') >= 1
    /\ last_log'[1].msg = "Request routed successfully"
    /\ last_log'[1].selected_agent = id

\* C13: mark_agent_request(id) for an id the registry does not hold returns
\* normally and changes nothing: same ids, same entry objects, every field of
\* every entry as before.
C13_UnknownIdIsNoOp ==
    [][ \A c \in Clients :
          \A id \in (AgentIds \cup { GHOST }) \ DOMAIN agent_registry :
             /\ mark_agent_request(heap, id) = heap
             /\ MarksRequest(c, id) =>
                   /\ req_pc'[c] # "raised"
                   /\ agent_registry' = agent_registry
                   /\ heap' = heap ]_vars

C13_Witness ==
    /\ Len(last_log) >= 1
    /\ last_log[1].msg = "Request routed successfully"
    /\ last_log[1].selected_agent \in AgentIds \ DOMAIN agent_registry
    /\ \E id \in DOMAIN agent_registry : EntryOf(id).request_count > 0

\* a step of the routing engine for client c
RoutingStep(c) == req_pc'[c] # req_pc[c]

\* C14: a step of route_request / process_request leaves the registry's ids
\* and each entry's agent, last_seen and consecutive_failures as they were;
\* the only entry it may change is the one mark_agent_request(id) finds, and
\* of that only request_count (+1) and last_request (now).
C14_RoutingTouchesOnlyRequestCount ==
    [][ \A c \in Clients : RoutingStep(c) =>
          /\ agent_registry' = agent_registry
          /\ RegistryView' = RegistryView
          /\ DOMAIN heap' = DOMAIN heap
          /\ \A r \in DOMAIN heap :
                \/ heap'[r] = heap[r]
                \/ /\ MarksRequest(c, r[1])
                   /\ r[1] \in DOMAIN agent_registry
                   /\ agent_registry[r[1]] = r
                   /\ heap'[r] = [heap[r] EXCEPT
                                     !.request_count = @ + 1,
                                     !.last_request = now] ]_vars

C14_Witness ==
    /\ Len(last_log) >= 1
    /\ last_log[1].msg = "Request routed successfully"
    /\ last_log[1].selected_agent \in DOMAIN agent_registry
    /\ EntryOf(last_log[1].selected_agent).request_count = MaxRequests
    /\ EntryOf(last_log[1].selected_agent).consecutive_failures > 0

(***************************************************************************)
(* Properties of the lifecycle                                             *)
(***************************************************************************)
\* C15: a loop task calls refresh() only while the service is running: once
\* stop() has set _running to False no _discovery_loop begins a cycle, the
\* loop left over from an earlier start() included.
C15_NoPeriodicCycleAfterStop ==
    [][ \A l \in LoopTasks :
          (pc[l] # "discover" /\ pc'[l] = "discover") => running ]_vars

C15_Witness ==
    /\ Len(last_log) >= 1
    /\ last_log[1].msg = "Discovery service stopped"
    /\ ~ running
    /\ \E l \in LoopTasks : l # discovery_task /\ pc[l] = "sleep"

\* the _discovery_loop tasks that exist and have not ended
LiveLoops == { l \in LoopTasks : pc[l] \notin { "none", "done" } }

\* C16: whatever the number of start() calls, at most one periodic
\* reconciliation loop is alive.
C16_OneLoopAfterStarts == Cardinality(LiveLoops) <= 1

(***************************************************************************)
(* Properties of discovery                                                 *)
(***************************************************************************)
NoDuplicateIds(agents) ==
    \A i, j \in DOMAIN agents :
       agents[i].agent_id = agents[j].agent_id => i = j

\* the first endpoint of agent `id` that answered
FirstAnswering(probe, id) ==
    CHOOSE i \in DOMAIN known_endpoints :
       /\ AgentKey(known_endpoints[i]) = id /\ probe[i] = "ok"
       /\ \A j \in DOMAIN known_endpoints :
             (AgentKey(known_endpoints[j]) = id /\ probe[j] = "ok") => i <= j

\* C17: every entry is stored under the agent_id of its agent, so one agent
\* has one entry; the list a discovery pass returns has no two agents with
\* the same id, and the one kept for an id comes from the first of its
\* endpoints that answered.
C17_OneEntryPerAgent ==
    /\ \A id \in DOMAIN agent_registry : EntryOf(id).agent.agent_id = id
    /\ \A p \in Runners :
          /\ NoDuplicateIds(found[p])
          /\ \A id \in DOMAIN new_registry[p] :
                heap[new_registry[p][id]].agent.agent_id = id
    /\ \A probe \in ProbeOutcomes, kinds \in CardKinds :
          LET agents == discover_agents_http("manual", probe, kinds)
          IN  /\ NoDuplicateIds(agents)
              /\ { agents[i].agent_id : i \in DOMAIN agents }
                    = { AgentKey(known_endpoints[i]) :
                          i \in { j \in DOMAIN known_endpoints : probe[j] = "ok" } }
              /\ \A i \in DOMAIN agents :
                    agents[i].endpoint
                       = known_endpoints[FirstAnswering(probe, agents[i].agent_id)].host

\* an agent that is already registered is discovered again, through its
\* fallback endpoint: still one entry object, under the same id
C17_Witness ==
    /\ pc["manual"] = "health"
    /\ Len(found["manual"]) = Cardinality(AgentIds)
    /\ \E id \in DOMAIN agent_registry :
          /\ Head(found["manual"]).agent_id = id
          /\ EntryOf(id).agent.endpoint = "localhost"
          /\ Cardinality({ r \in DOMAIN heap : r[1] = id }) = 1

(***************************************************************************)
(* Properties of the health checks                                         *)
(***************************************************************************)
\* every request the check makes ends in an exception
ErrorsOnly(r) ==
    /\ r.first.kind \in { "request_error", "exception" }
    /\ r.second \in { "request_error", "exception" }
    /\ r.third \in { "request_error", "exception" }

\* the step in which the health check awaited by task p returns or raises
HealthStep(p) ==
    /\ pc[p] = "health"
    /\ pc'[p] # "health" \/ found'[p] # found[p]

Non200Only(r) ==
    /\ r.first.kind = "non-200"
    /\ r.second = "non-200"
    /\ r.third = "non-200"

\* the status the mapping of the specification gives to the outcome r
MappedStatus(r) ==
    IF r.first.kind = "200"
    THEN IF r.first.status = S_healthy THEN { HEALTHY }
         ELSE IF r.first.status \in { S_degraded, S_warning } THEN { DEGRADED }
         ELSE IF r.first.status \in { S_unhealthy, S_error } THEN { UNHEALTHY }
         ELSE IF r.first.status = << >> THEN { HEALTHY }
         ELSE AgentStatus
    ELSE IF r.first.kind = "200-unparseable" THEN { HEALTHY }
    ELSE IF Non200Only(r) THEN { UNHEALTHY }
    ELSE IF ErrorsOnly(r) THEN { UNKNOWN }
    ELSE AgentStatus

\* C19: whenever a health check is awaited, the strategy of every protocol
\* maps a 200 reporting healthy to Healthy, degraded or warning to Degraded,
\* unhealthy or error to Unhealthy, a 200 without a parseable status to
\* Healthy, non-200 answers to Unhealthy and transport errors to Unknown.
C19_StatusMapping ==
    (\E p \in Runners : pc[p] = "health") =>
        \A protocol \in Protocols, r \in HealthProbes :
            health_check(protocol, r) \in MappedStatus(r)

(***************************************************************************)
(* Properties of the strategies' discover                                  *)
(***************************************************************************)
\* C20: discover of the strategy of every protocol returns None exactly when
\* the container description gives no port; with a port, and every request
\* failed, it returns the descriptor built from the labels.
C20_NoneOnlyWithoutPort ==
    discovered.strategy # "none" =>
        LET port == _extract_port(container_info)
        IN  /\ discovered.agent = None <=> not(port)
            /\ (~ not(port) /\ discovered.all_failed) =>
                  /\ discovered.agent # None
                  /\ discovered.agent[1].capabilities
                        = _fallback_discovery(discovered.strategy, container_info,
                              _build_endpoint_url(port))[1].capabilities

(***************************************************************************)
(* Properties of the discovery step                                        *)
(***************************************************************************)
AtLeastOneCapability(agent) ==
    /\ Len(CapabilitiesOf(agent.agent_id, agent.caps)) >= 1
    /\ agent.caps = "default" =>
          CapabilitiesOf(agent.agent_id, agent.caps)
             = << default_capability(agent.agent_id) >>

\* the agents whose first or second endpoint answers
Answering(probe) ==
    { AgentKey(known_endpoints[i]) :
        i \in { j \in DOMAIN known_endpoints : probe[j] = "ok" } }

MergeStep(p) ==
    /\ pc'[p] = "health"
    /\ pc[p] = "discover" \/ HealthStep(p)

\* the agent whose loop body begins in a MergeStep(p), and its entry
Merged(p) == Head(found'[p]).agent_id

MergedRef(p) == << Merged(p), entry'[p] >>

\* the agent whose health check ends in a HealthStep(p), and its entry
Checked(p) == Head(found[p]).agent_id

CheckedRef(p) == << Checked(p), entry[p] >>

\* C22: in a cycle that discovers a registered agent and whose health check
\* for it is not Healthy, the counter ends one above its value before the
\* cycle: beginning the merge of the agent leaves consecutive_failures as it
\* was, and the health check that is not Healthy adds exactly 1.
C22_UnhealthyCycleAddsOne ==
    [][ \A p \in Runners :
          /\ (MergeStep(p) /\ Merged(p) \in DOMAIN agent_registry) =>
                heap'[MergedRef(p)].consecutive_failures
                   = EntryOf(Merged(p)).consecutive_failures
          /\ (HealthStep(p) /\ CheckedRef(p) \in DOMAIN heap'
                /\ heap'[CheckedRef(p)].agent.status # HEALTHY) =>
                heap'[CheckedRef(p)].consecutive_failures
                   = heap[CheckedRef(p)].consecutive_failures + 1 ]_vars

\* the health check of task p returned Healthy in this step: mark_success
\* is the only call of that step that leaves the counter at 0
HealthyStep(p) ==
    /\ HealthStep(p)
    /\ CheckedRef(p) \in DOMAIN heap'
    /\ heap'[CheckedRef(p)].consecutive_failures = 0

SameDescriptor(a, b) ==
    /\ a.agent_id = b.agent_id
    /\ a.endpoint = b.endpoint
    /\ a.caps = b.caps

\* C23: when the health check of a discovered agent returns Healthy its
\* entry has consecutive_failures 0, status Healthy and the descriptor just
\* discovered; and a counter that was above 0 becomes 0 in no other step.
C23_ResetOnlyOnHealthyCycle ==
    [][ /\ \A p \in Runners : HealthyStep(p) =>
              /\ heap'[CheckedRef(p)].agent.status = HEALTHY
              /\ SameDescriptor(heap'[CheckedRef(p)].agent, Head(found[p]))
        /\ \A r \in DOMAIN heap \cap DOMAIN heap' :
              (heap[r].consecutive_failures > 0
                 /\ heap'[r].consecutive_failures = 0) =>
                 \E p \in Runners : HealthyStep(p) /\ CheckedRef(p) = r ]_vars

\* C24: the last_seen of an entry changes only in the step in which the
\* health check of its agent, discovered in this cycle, returns Healthy; a
\* cycle in which the agent is absent or its health check is not Healthy
\* leaves last_seen as it was.
C24_LastSeenOnlyOnHealthyCycle ==
    [][ \A r \in DOMAIN heap \cap DOMAIN heap' :
           heap'[r].last_seen # heap[r].last_seen =>
              \E p \in Runners : HealthyStep(p) /\ CheckedRef(p) = r ]_vars

(***************************************************************************)
(* Properties of the request bookkeeping                                   *)
(***************************************************************************)
\* the entry objects whose request_count differs after the step
Counted == { r \in DOMAIN heap \cap DOMAIN heap' :
               heap'[r].request_count # heap[r].request_count }

\* C25: when route_request returns, the request is counted at most once and
\* only for a selection that is in the healthy set at that moment and has no
\* error: then the selected agent's request_count is one higher and no other
\* changes; when no agent is selected, the selection is stale or an error is
\* set, no request_count changes.
C25_CountedOnlyAfterRevalidation ==
    [][ \A c \in Clients : RouteReturns(c) =>
          LET d == decision'[c]
          IN  IF is_successful(d) /\ d.selected_agent \in HealthyIds
              THEN /\ Counted = { agent_registry[d.selected_agent] }
                   /\ heap'[agent_registry[d.selected_agent]].request_count
                         = EntryOf(d.selected_agent).request_count + 1
              ELSE Counted = {} ]_vars

(***************************************************************************)
(* Properties of the discovery pass                                        *)
(***************************************************************************)
\* C26: in a discovery pass, whichever endpoints answer another status,
\* raise, or yield no agent, the pass returns (it does not raise), and
\* returns one agent for every agent that has an endpoint answering, built
\* from the first such endpoint, in the order of the endpoints; the empty
\* list if none answers.
C26_FailedCandidateDoesNotAbort ==
    pc["manual"] = "discover" =>
       \A answers \in [DOMAIN known_endpoints -> EndpointAnswers] :
          LET probe  == ProbeOf(answers)
              agents == discover_agents_http("manual", probe,
                                             [ id \in AgentIds |-> "card" ])
          IN  /\ { agents[i].agent_id : i \in DOMAIN agents } = Answering(probe)
              /\ Len(agents) = Cardinality(Answering(probe))
              /\ \A i \in DOMAIN agents :
                    agents[i].endpoint
                       = known_endpoints[FirstAnswering(probe,
                                            agents[i].agent_id)].host
              /\ \A i, j \in DOMAIN agents :
                    i < j => FirstAnswering(probe, agents[i].agent_id)
                                < FirstAnswering(probe, agents[j].agent_id)
              /\ Answering(probe) = {} => agents = << >>

\* both endpoints of the first agent and the first endpoint of the second
\* failed; the pass went on and returned the second agent from its last
\* endpoint
C26_Witness ==
    /\ pc["manual"] = "health"
    /\ Len(found["manual"]) = 1
    /\ found["manual"][1].agent_id = "a2a-math"
    /\ found["manual"][1].endpoint = "localhost"

(***************************************************************************)
(* Properties of the periodic loop                                         *)
(***************************************************************************)
\* the last thing logged is the failure of a cycle of loop task l: caught
\* inside refresh(), or raised by refresh() into the loop
LoopFailed(l) ==
    /\ Len(last_log) >= 1
    /\ last_log[1].msg \in { "Discovery refresh failed", "Discovery loop error" }
    /\ last_log[1].task = l

\* C27: when a cycle of a periodic loop has failed, the loop task has not
\* ended as long as the service is running, and it eventually calls
\* refresh() again unless the service is stopped.
C27_LoopSurvivesFailingCycle ==
    \A l \in LoopTasks :
       /\ [] (LoopFailed(l) /\ running => pc[l] = "sleep")
       /\ (LoopFailed(l) ~> (pc[l] = "discover" \/ ~ running))

\* refresh() has just raised into the loop of a running service, and the
\* loop task is asleep before its next iteration
C27_Witness ==
    \E l \in LoopTasks :
       /\ Len(last_log) >= 1
       /\ last_log[1].msg = "Discovery loop error"
       /\ last_log[1].task = l
       /\ running
       /\ pc[l] = "sleep"

(***************************************************************************)
(* Properties of stop()                                                    *)
(***************************************************************************)
\* the step in which stop() cancels the periodic task t while its cycle is
\* suspended in discovery or in a health check
StopCancelsCycle(t) ==
    /\ discovery_task = t
    /\ pc[t] \in CycleStates
    /\ pc'[t] = "done"
    /\ Len(last_log') >= 1
    /\ last_log'[1].msg = "Discovery service stopped"

\* C28: when stop() cancels a periodic cycle in flight, the registry it
\* leaves holds nothing of the abandoned cycle: no registered entry carries
\* the descriptor that cycle discovered, and the registry and its entries
\* are what they were when the cycle began or what its completed merge
\* would have made them (a cancelled cycle completes nothing).
C28_CancelLeavesNoPartialMerge ==
    [][ \A t \in LoopTasks : StopCancelsCycle(t) =>
          /\ \A id \in DOMAIN agent_registry : EntryOf(id).agent.by # t
          /\ agent_registry' = agent_registry
          /\ \A id \in DOMAIN agent_registry :
                /\ heap'[agent_registry[id]].consecutive_failures
                      = EntryOf(id).consecutive_failures
                /\ heap'[agent_registry[id]].last_seen = EntryOf(id).last_seen
       ]_vars

(***************************************************************************)
(* Properties of request_count under reconciliation                        *)
(***************************************************************************)
\* C29: for an agent id that is in the registry before and after a step, the
\* request_count the registry shows for it does not decrease, whichever
\* cycle or request takes the step.
C29_RequestCountNeverLost ==
    [][ \A id \in DOMAIN agent_registry \cap DOMAIN agent_registry' :
           heap'[agent_registry'[id]].request_count
              >= EntryOf(id).request_count ]_vars

(***************************************************************************)
(* Properties of the routing metrics                                       *)
(***************************************************************************)
\* the route_request calls that have returned: the calls made, less those
\* suspended in self.agent.run
CompletedCalls ==
    served - Cardinality({ c \in DOMAIN req_pc : req_pc[c] = "run" })

\* C30: at every moment total_requests = successful_requests +
\* failed_requests, and total_requests is the number of route_request calls
\* that have returned, normally or through the exception handler.
C30_MetricsAddUp ==
    /\ metrics.total_requests
          = metrics.successful_requests + metrics.failed_requests
    /\ metrics.total_requests = CompletedCalls

\* two calls have returned, one with an agent selected and one through the
\* exception handler, and the counters read 2 = 1 + 1
C30_Witness ==
    \E c, o \in DOMAIN req_pc :
        /\ c # o
        /\ req_pc[c] # "run" /\ req_pc[o] # "run"
        /\ decision[c].selected_agent # NoAgent
        /\ decision[o].reasoning # << >>
        /\ decision[o].reasoning[1] = "Routing failed due to error: "
        /\ metrics = [ total_requests |-> 2, successful_requests |-> 1,
                       failed_requests |-> 1 ]

=============================================================================
